---------------------------- MODULE Spec2Model ----------------------------
(***************************************************************************)
(* Model of nbl-rotations: parse_game (parser.py) builds a GameData from   *)
(* the raw play-by-play feed, calculate_rotations (rotations.py) replays   *)
(* the substitution events once per team and emits the stints,             *)
(* calculate_player_ratings (ratings.py) rates the stints.                 *)
(*                                                                         *)
(* Python strings that the code parses (clock "MM:SS", raw scores) are     *)
(* sequences of one-character strings; strings the code only compares      *)
(* (action types, shirt numbers, names) are TLA+ strings.  A raw event is  *)
(* a record whose domain holds exactly the keys present in the JSON        *)
(* object, so e.get(k, d) is Get(e, k, d).  Times are whole seconds (the   *)
(* code's floats only ever hold sums of integers).  Possession estimates   *)
(* are whole hundredths (0.44 is 44) and ratings are fractions num/den.    *)
(***************************************************************************)
EXTENDS Integers, Sequences, FiniteSets, TLC

VARIABLES
    raw,          \* the feed: [tm |-> <<pl of team 1, pl of team 2>>, pbp |-> raw events]
    game,         \* GameData built by parse_game
    tno,          \* calculate_rotations: team of the current pass
    idx,          \* calculate_rotations: position of `event` in game.events
    on_court,     \* shirt_number -> True
    stint_start,  \* shirt_number -> entry record of the open stint
    rotations,    \* shirt_number -> PlayerRotation
    last_score1,  \* last known score of team 1
    last_score2,  \* last known score of team 2
    result,       \* team number -> list of PlayerRotation
    ratings,      \* calculate_player_ratings: team number -> list of PlayerRating
    stint_ratings,\* the StintRating values `sr` of each player's stints, as ratings
    pc            \* "parse", "team", "events", "done", "rated", "error"

vars == <<raw, game, tno, idx, on_court, stint_start, rotations,
          last_score1, last_score2, result, ratings, stint_ratings, pc>>

-----------------------------------------------------------------------------
(* Bounds of the checked input space *)

MaxEvents == 2

\* the longest log of the feeds with period ends
MaxPeriodEvents == 7

\* the longest log of the feeds with rated plays
MaxRatingEvents == 3

-----------------------------------------------------------------------------
(* Python primitives *)

Get(e, k, default) == IF k \in DOMAIN e THEN e[k] ELSE default

Digits == <<"0", "1", "2", "3", "4", "5", "6", "7", "8", "9">>

IsDigit(c) == \E d \in 1..10 : Digits[d] = c

DigitVal(c) == (CHOOSE d \in 1..10 : Digits[d] = c) - 1

\* int(s) succeeds on a non-empty string of decimal digits
IsNumeric(s) == Len(s) > 0 /\ \A k \in 1..Len(s) : IsDigit(s[k])

RECURSIVE IntOf(_)
IntOf(s) ==
    IF Len(s) = 0 THEN 0
    ELSE 10 * IntOf(SubSeq(s, 1, Len(s) - 1)) + DigitVal(s[Len(s)])

\* s.split(":"): the pieces between the colons, at least one piece
RECURSIVE SplitColon(_)
SplitColon(s) ==
    IF \A k \in 1..Len(s) : s[k] # ":" THEN <<s>>
    ELSE LET c == CHOOSE k \in 1..Len(s) :
                      s[k] = ":" /\ \A j \in 1..(k - 1) : s[j] # ":"
         IN  <<SubSeq(s, 1, c - 1)>> \o SplitColon(SubSeq(s, c + 1, Len(s)))

RECURSIVE SumSeq(_)
SumSeq(s) == IF Len(s) = 0 THEN 0 ELSE s[1] + SumSeq(Tail(s))

-----------------------------------------------------------------------------
(* parser.py *)

\* parse_time_to_seconds: int(parts[0]) and int(parts[1]) do not raise ValueError
clock_parses(gt) ==
    LET parts == SplitColon(gt)
    IN  /\ IsNumeric(parts[1])
        /\ Len(parts) > 1 => IsNumeric(parts[2])

\* as total_before, every earlier period counted as a regulation period
total_before_all_regulation(period, period_duration) ==
    IF period <= 1 THEN 0 ELSE (period - 1) * period_duration

RECURSIVE total_before(_, _)
total_before(period, period_duration) ==
    IF period <= 1 THEN 0
    ELSE total_before(period - 1, period_duration)
         + (IF period - 1 >= 5 THEN 300 ELSE period_duration)

\* as parse_time_to_seconds, the clock read as counting up
parse_time_counting_up(gt, period) ==
    LET period_duration == 600
        parts == SplitColon(gt)
        minutes == IntOf(parts[1])
        seconds == IF Len(parts) > 1 THEN IntOf(parts[2]) ELSE 0
        remaining == minutes * 60 + seconds
    IN  total_before(period, period_duration) + remaining

parse_time_to_seconds(gt, period) ==
    LET period_duration == 600
        parts == SplitColon(gt)
        minutes == IntOf(parts[1])
        seconds == IF Len(parts) > 1 THEN IntOf(parts[2]) ELSE 0
        remaining == minutes * 60 + seconds
        current_duration == IF period >= 5 THEN 300 ELSE period_duration
        elapsed_in_period == current_duration - remaining
    IN  total_before(period, period_duration) + elapsed_in_period

\* sorted(pbp, key=actionNumber): a stable ascending sort
RECURSIVE sorted_by_action_number(_)
sorted_by_action_number(pbp) ==
    IF Len(pbp) = 0 THEN <<>>
    ELSE LET rest == sorted_by_action_number(SubSeq(pbp, 1, Len(pbp) - 1))
             e == pbp[Len(pbp)]
             k == Cardinality({j \in 1..Len(rest) :
                     Get(rest[j], "actionNumber", 0) <= Get(e, "actionNumber", 0)})
         IN  SubSeq(rest, 1, k) \o <<e>> \o SubSeq(rest, k + 1, Len(rest))

is_period_end(e) ==
    Get(e, "actionType", "") = "period" /\ Get(e, "subType", "") = "end"

\* as fix_period_numbers, without the cap at the number of period ends
fix_period_numbers_uncapped(pbp) ==
    LET sorted_pbp == sorted_by_action_number(pbp)
        ends == SelectSeq(sorted_pbp, is_period_end)
        period_ends == [k \in 1..Len(ends) |-> Get(ends[k], "actionNumber", 0)]
        num_real_periods == Len(period_ends)
        real_period(e) ==
            1 + Cardinality({k \in 1..Len(period_ends) :
                    Get(e, "actionNumber", 0) > period_ends[k]})
        capped(e) == real_period(e)
    IN  IF Len(period_ends) <= 4 THEN pbp
        ELSE [k \in 1..Len(pbp) |->
                [f \in DOMAIN pbp[k] \cup {"period"} |->
                    IF f = "period" THEN capped(pbp[k]) ELSE pbp[k][f]]]

\* as fix_period_numbers, counting on from the period the feed reported
fix_period_numbers_from_reported(pbp) ==
    LET sorted_pbp == sorted_by_action_number(pbp)
        ends == SelectSeq(sorted_pbp, is_period_end)
        period_ends == [k \in 1..Len(ends) |-> Get(ends[k], "actionNumber", 0)]
        num_real_periods == Len(period_ends)
        real_period(e) ==
            Get(e, "period", 1) + Cardinality({k \in 1..Len(period_ends) :
                    Get(e, "actionNumber", 0) > period_ends[k]})
        capped(e) ==
            IF real_period(e) < num_real_periods THEN real_period(e)
            ELSE num_real_periods
    IN  IF Len(period_ends) <= 4 THEN pbp
        ELSE [k \in 1..Len(pbp) |->
                [f \in DOMAIN pbp[k] \cup {"period"} |->
                    IF f = "period" THEN capped(pbp[k]) ELSE pbp[k][f]]]

\* as fix_period_numbers, correcting from four period ends on
fix_period_numbers_from_four(pbp) ==
    LET sorted_pbp == sorted_by_action_number(pbp)
        ends == SelectSeq(sorted_pbp, is_period_end)
        period_ends == [k \in 1..Len(ends) |-> Get(ends[k], "actionNumber", 0)]
        num_real_periods == Len(period_ends)
        real_period(e) ==
            1 + Cardinality({k \in 1..Len(period_ends) :
                    Get(e, "actionNumber", 0) > period_ends[k]})
        capped(e) ==
            IF real_period(e) < num_real_periods THEN real_period(e)
            ELSE num_real_periods
    IN  IF Len(period_ends) < 4 THEN pbp
        ELSE [k \in 1..Len(pbp) |->
                [f \in DOMAIN pbp[k] \cup {"period"} |->
                    IF f = "period" THEN capped(pbp[k]) ELSE pbp[k][f]]]

fix_period_numbers(pbp) ==
    LET sorted_pbp == sorted_by_action_number(pbp)
        ends == SelectSeq(sorted_pbp, is_period_end)
        period_ends == [k \in 1..Len(ends) |-> Get(ends[k], "actionNumber", 0)]
        num_real_periods == Len(period_ends)
        real_period(e) ==
            1 + Cardinality({k \in 1..Len(period_ends) :
                    Get(e, "actionNumber", 0) > period_ends[k]})
        capped(e) ==
            IF real_period(e) < num_real_periods THEN real_period(e)
            ELSE num_real_periods
    IN  IF Len(period_ends) <= 4 THEN pbp
        ELSE [k \in 1..Len(pbp) |->
                [f \in DOMAIN pbp[k] \cup {"period"} |->
                    IF f = "period" THEN capped(pbp[k]) ELSE pbp[k][f]]]

\* max((e.get("period", 1) for e in pbp), default=4)
num_periods_of(pbp) ==
    IF Len(pbp) = 0 THEN 4
    ELSE CHOOSE m \in {Get(pbp[k], "period", 1) : k \in 1..Len(pbp)} :
             \A k \in 1..Len(pbp) : Get(pbp[k], "period", 1) <= m

\* s1 and s2 are both present and not ""
has_scores(e) ==
    /\ "s1" \in DOMAIN e /\ "s2" \in DOMAIN e
    /\ e["s1"] # <<>> /\ e["s2"] # <<>>

\* the final-score loop of parse_game over pbp[1..n], in feed order
RECURSIVE final_score(_, _)
final_score(pbp, n) ==
    IF n = 0 THEN <<0, 0>>
    ELSE LET prev == final_score(pbp, n - 1)
             e == pbp[n]
         IN  IF has_scores(e)
                /\ IntOf(e["s1"]) + IntOf(e["s2"]) > prev[1] + prev[2]
             THEN <<IntOf(e["s1"]), IntOf(e["s2"])>>
             ELSE prev

\* int(e.get(key) or 0)
score_field(e, key) ==
    IF key \notin DOMAIN e \/ e[key] = <<>> THEN 0 ELSE IntOf(e[key])

make_event(e) ==
    [action_number |-> Get(e, "actionNumber", 0),
     game_time     |-> Get(e, "gt", <<"0", "0", ":", "0", "0">>),
     period        |-> Get(e, "period", 1),
     team_number   |-> Get(e, "tno", 0),
     action_type   |-> Get(e, "actionType", ""),
     sub_type      |-> Get(e, "subType", ""),
     success       |-> Get(e, "success", 0),
     score1        |-> score_field(e, "s1"),
     score2        |-> score_field(e, "s2"),
     shirt_number  |-> Get(e, "shirtNumber", ""),
     player_name   |-> Get(e, "scoreboardName", Get(e, "name", ""))]

make_player(pl, team) ==
    [shirt_number  |-> Get(pl, "shirtNumber", ""),
     name          |-> Get(pl, "name", Get(pl, "scoreboardName", "#?")),
     is_starter    |-> (Get(pl, "starter", 0) = 1),
     team_number   |-> team,
     stats_minutes |-> Get(pl, "sMinutes", "")]

\* as parse_game, num_periods taken from the periods as the feed reported them
parse_game_periods_as_reported(r) ==
    LET pbp == fix_period_numbers(r.pbp)
        final == final_score(pbp, Len(pbp))
        sorted_pbp == sorted_by_action_number(pbp)
    IN  [final_score1 |-> final[1],
         final_score2 |-> final[2],
         num_periods  |-> num_periods_of(r.pbp),
         players      |-> [k \in 1..Len(r.tm[1]) |-> make_player(r.tm[1][k], 1)]
                          \o [k \in 1..Len(r.tm[2]) |-> make_player(r.tm[2][k], 2)],
         events       |-> [k \in 1..Len(sorted_pbp) |-> make_event(sorted_pbp[k])]]

parse_game(r) ==
    LET pbp == fix_period_numbers(r.pbp)
        final == final_score(pbp, Len(pbp))
        sorted_pbp == sorted_by_action_number(pbp)
    IN  [final_score1 |-> final[1],
         final_score2 |-> final[2],
         num_periods  |-> num_periods_of(pbp),
         players      |-> [k \in 1..Len(r.tm[1]) |-> make_player(r.tm[1][k], 1)]
                          \o [k \in 1..Len(r.tm[2]) |-> make_player(r.tm[2][k], 2)],
         events       |-> [k \in 1..Len(sorted_pbp) |-> make_event(sorted_pbp[k])]]

-----------------------------------------------------------------------------
(* rotations.py *)

Stint(sn, name, team, start, period_out, time_out, team_score, opp_score) ==
    [shirt_number   |-> sn,
     player_name    |-> name,
     team_number    |-> team,
     period_in      |-> start.period,
     period_out     |-> period_out,
     time_in        |-> start.time,
     time_out       |-> time_out,
     score_team_in  |-> start.score_team,
     score_opp_in   |-> start.score_opp,
     score_team_out |-> team_score,
     score_opp_out  |-> opp_score]

duration(stint) == stint.time_out - stint.time_in

plus_minus(stint) ==
    (stint.score_team_out - stint.score_team_in)
    - (stint.score_opp_out - stint.score_opp_in)

\* as period_end_seconds, every period counted as a regulation period
period_end_all_regulation(period) == 600 * period

RECURSIVE period_end_seconds(_)
period_end_seconds(period) ==
    IF period < 1 THEN 0
    ELSE period_end_seconds(period - 1) + (IF period >= 5 THEN 300 ELSE 600)

RECURSIVE period_start_seconds(_)
period_start_seconds(period) ==
    IF period <= 1 THEN 0
    ELSE period_start_seconds(period - 1) + (IF period - 1 >= 5 THEN 300 ELSE 600)

\* as current_score_for_team, the pair never turned round
score_of_team_one(score1, score2, team_number) == <<score1, score2>>

current_score_for_team(score1, score2, team_number) ==
    IF team_number = 1 THEN <<score1, score2>> ELSE <<score2, score1>>

\* lines 107-108: the last known score after looking at `event`
updated_last_score(event, score1, score2) ==
    IF event.score1 + event.score2 > 0
    THEN <<event.score1, event.score2>>
    ELSE <<score1, score2>>

\* dict operations
DictSet(d, k, v) == [x \in DOMAIN d \cup {k} |-> IF x = k THEN v ELSE d[x]]

DictDel(d, k) == [x \in DOMAIN d \ {k} |-> d[x]]

team_players(t) == SelectSeq(game.players, LAMBDA p : p.team_number = t)

\* lines 80-89: the last player of the roster with a shirt number keeps its entry
initial_rotations(t) ==
    LET tp == team_players(t)
        last(sn) == CHOOSE k \in 1..Len(tp) :
                        /\ tp[k].shirt_number = sn
                        /\ \A j \in (k + 1)..Len(tp) : tp[j].shirt_number # sn
    IN  [sn \in {tp[k].shirt_number : k \in 1..Len(tp)} |->
            [shirt_number  |-> sn,
             player_name   |-> tp[last(sn)].name,
             team_number   |-> t,
             is_starter    |-> tp[last(sn)].is_starter,
             total_seconds |-> 0,
             stints        |-> <<>>]]

\* as starter_shirts, the starter flag not looked at
all_shirts(t) ==
    LET tp == team_players(t)
    IN  {tp[k].shirt_number : k \in 1..Len(tp)}

starter_shirts(t) ==
    LET tp == team_players(t)
    IN  {tp[k].shirt_number : k \in {j \in 1..Len(tp) : tp[j].is_starter}}

\* lines 95-100
initial_stint_start == [time |-> 0, period |-> 1, score_team |-> 0, score_opp |-> 0]

\* as entry_record, the entry time left at the start of the game
entry_record_at_zero(abs_time, event, team_score, opp_score) ==
    [time |-> 0, period |-> event.period,
     score_team |-> team_score, score_opp |-> opp_score]

\* lines 141-146
entry_record(abs_time, event, team_score, opp_score) ==
    [time |-> abs_time, period |-> event.period,
     score_team |-> team_score, score_opp |-> opp_score]

\* as append_stint, a record made for a shirt number that has none
append_stint_any_shirt(rots, sn, stint) ==
    IF sn \in DOMAIN rots
    THEN [rots EXCEPT ![sn].stints = Append(@, stint)]
    ELSE DictSet(rots, sn,
             [shirt_number  |-> sn,
              player_name   |-> stint.player_name,
              team_number   |-> stint.team_number,
              is_starter    |-> FALSE,
              total_seconds |-> 0,
              stints        |-> <<stint>>])

\* lines 119-133: the stint closed by a substitution-out, appended to the player
append_stint(rots, sn, stint) ==
    IF sn \in DOMAIN rots
    THEN [rots EXCEPT ![sn].stints = Append(@, stint)]
    ELSE rots

\* line 114: a substitution-out of a shirt number recorded on court
is_sub_out(event) ==
    event.sub_type = "out" /\ event.shirt_number \in DOMAIN on_court

\* lines 116-133: rotations after a substitution event of team tno
rotations_after(event, abs_time, score) ==
    LET sn == event.shirt_number
    IN  IF is_sub_out(event) /\ sn \in DOMAIN stint_start
        THEN append_stint(rotations, sn,
                 Stint(sn,
                       IF sn \in DOMAIN rotations THEN rotations[sn].player_name
                       ELSE event.player_name,
                       tno, stint_start[sn], event.period, abs_time,
                       score[1], score[2]))
        ELSE rotations

\* as stint_start_after, an open record not replaced by a later "in"
stint_start_first_in_wins(event, abs_time, score) ==
    LET sn == event.shirt_number
    IN  IF is_sub_out(event) THEN DictDel(stint_start, sn)
        ELSE IF event.sub_type = "in" /\ sn \notin DOMAIN stint_start
        THEN DictSet(stint_start, sn, entry_record(abs_time, event, score[1], score[2]))
        ELSE stint_start

\* as stint_start_after, without `del stint_start[sn]`
stint_start_kept_on_out(event, abs_time, score) ==
    LET sn == event.shirt_number
    IN  IF is_sub_out(event) THEN stint_start
        ELSE IF event.sub_type = "in"
        THEN DictSet(stint_start, sn, entry_record(abs_time, event, score[1], score[2]))
        ELSE stint_start

\* lines 134 and 141-146: stint_start after a substitution event of team tno
stint_start_after(event, abs_time, score) ==
    LET sn == event.shirt_number
    IN  IF is_sub_out(event) THEN DictDel(stint_start, sn)
        ELSE IF event.sub_type = "in"
        THEN DictSet(stint_start, sn, entry_record(abs_time, event, score[1], score[2]))
        ELSE stint_start

\* as on_court_after, without `del on_court[sn]`
on_court_kept_on_out(event) ==
    LET sn == event.shirt_number
    IN  IF is_sub_out(event) THEN on_court
        ELSE IF event.sub_type = "in" THEN DictSet(on_court, sn, TRUE)
        ELSE on_court

\* as on_court_after, with `else` for `elif event.sub_type == "in"`
on_court_after_else(event) ==
    LET sn == event.shirt_number
    IN  IF is_sub_out(event) THEN DictDel(on_court, sn)
        ELSE DictSet(on_court, sn, TRUE)

\* lines 135 and 140: on_court after a substitution event of team tno
on_court_after(event) ==
    LET sn == event.shirt_number
    IN  IF is_sub_out(event) THEN DictDel(on_court, sn)
        ELSE IF event.sub_type = "in" THEN DictSet(on_court, sn, TRUE)
        ELSE on_court

\* as closed_rotations, the open stints closed at the time of the last event
closed_rotations_at_last_event ==
    LET game_end == IF Len(game.events) = 0 THEN 0
                    ELSE parse_time_to_seconds(
                             game.events[Len(game.events)].game_time,
                             game.events[Len(game.events)].period)
        score == current_score_for_team(game.final_score1, game.final_score2, tno)
    IN  [sn \in DOMAIN rotations |->
            IF sn \in DOMAIN stint_start
            THEN [rotations[sn] EXCEPT !.stints =
                     Append(@, Stint(sn, rotations[sn].player_name, tno,
                                     stint_start[sn], game.num_periods, game_end,
                                     score[1], score[2]))]
            ELSE rotations[sn]]

\* lines 153-169: every open stint closed at the end of the game
closed_rotations ==
    LET game_end == period_end_seconds(game.num_periods)
        score == current_score_for_team(game.final_score1, game.final_score2, tno)
    IN  [sn \in DOMAIN rotations |->
            IF sn \in DOMAIN stint_start
            THEN [rotations[sn] EXCEPT !.stints =
                     Append(@, Stint(sn, rotations[sn].player_name, tno,
                                     stint_start[sn], game.num_periods, game_end,
                                     score[1], score[2]))]
            ELSE rotations[sn]]

\* lines 172-173
with_total_seconds(rots) ==
    [sn \in DOMAIN rots |->
        [rots[sn] EXCEPT !.total_seconds =
            SumSeq([k \in 1..Len(rots[sn].stints) |-> duration(rots[sn].stints[k])])]]

\* rotations.values(): the shirt numbers in the order they were first inserted
RECURSIVE rotation_keys(_)
rotation_keys(tp) ==
    IF Len(tp) = 0 THEN <<>>
    ELSE LET rest == rotation_keys(SubSeq(tp, 1, Len(tp) - 1))
             sn == tp[Len(tp)].shirt_number
         IN  IF \E k \in 1..Len(rest) : rest[k] = sn THEN rest ELSE Append(rest, sn)

\* as sorted_by_total_seconds, a record put before the records of equal key
RECURSIVE sorted_ties_reversed(_)
sorted_ties_reversed(prs) ==
    IF Len(prs) = 0 THEN <<>>
    ELSE LET rest == sorted_ties_reversed(SubSeq(prs, 1, Len(prs) - 1))
             r == prs[Len(prs)]
             k == Cardinality({j \in 1..Len(rest) :
                     -rest[j].total_seconds < -r.total_seconds})
         IN  SubSeq(rest, 1, k) \o <<r>> \o SubSeq(rest, k + 1, Len(rest))

\* sorted(prs, key=lambda r: -r.total_seconds): a stable sort
RECURSIVE sorted_by_total_seconds(_)
sorted_by_total_seconds(prs) ==
    IF Len(prs) = 0 THEN <<>>
    ELSE LET rest == sorted_by_total_seconds(SubSeq(prs, 1, Len(prs) - 1))
             r == prs[Len(prs)]
             k == Cardinality({j \in 1..Len(rest) :
                     -rest[j].total_seconds <= -r.total_seconds})
         IN  SubSeq(rest, 1, k) \o <<r>> \o SubSeq(rest, k + 1, Len(rest))

\* lines 176-184
team_result(rots, t) ==
    LET keys == rotation_keys(team_players(t))
        values == [k \in 1..Len(keys) |-> rots[keys[k]]]
        starters == sorted_by_total_seconds(
                        SelectSeq(values, LAMBDA r : r.is_starter))
        bench == sorted_by_total_seconds(
                     SelectSeq(values, LAMBDA r : ~r.is_starter /\ r.total_seconds > 0))
    IN  starters \o bench

-----------------------------------------------------------------------------
(* ratings.py *)

\* a float quotient, kept as a fraction
Frac(n, d) == [num |-> n, den |-> d]

\* as outside_range, the window open at its end
outside_range_end_exclusive(abs_time, time_start, time_end) ==
    abs_time < time_start \/ abs_time >= time_end

\* line 51: the event is skipped
outside_range(abs_time, time_start, time_end) ==
    abs_time < time_start \/ abs_time > time_end

\* lines 42-61: the four counters after events[1..n]
RECURSIVE count_in_range(_, _, _, _, _)
count_in_range(events, n, team_number, time_start, time_end) ==
    IF n = 0 THEN [fga |-> 0, oreb |-> 0, to |-> 0, fta |-> 0]
    ELSE LET c == count_in_range(events, n - 1, team_number, time_start, time_end)
             e == events[n]
             abs_time == parse_time_to_seconds(e.game_time, e.period)
         IN  IF e.team_number # team_number THEN c
             ELSE IF outside_range(abs_time, time_start, time_end) THEN c
             ELSE IF e.action_type \in {"2pt", "3pt"} THEN [c EXCEPT !.fga = @ + 1]
             ELSE IF e.action_type = "freethrow" THEN [c EXCEPT !.fta = @ + 1]
             ELSE IF e.action_type = "rebound" /\ e.sub_type = "offensive"
                  THEN [c EXCEPT !.oreb = @ + 1]
             ELSE IF e.action_type = "turnover" THEN [c EXCEPT !.to = @ + 1]
             ELSE c

\* as possessions_of, a free throw weighted 0.4
possessions_of_round_weight(c) == 100 * c.fga - 100 * c.oreb + 100 * c.to + 40 * c.fta

\* line 63, in hundredths: fga - oreb + to + 0.44 * fta
possessions_of(c) == 100 * c.fga - 100 * c.oreb + 100 * c.to + 44 * c.fta

count_possessions_in_range(events, team_number, time_start, time_end) ==
    possessions_of(count_in_range(events, Len(events), team_number,
                                  time_start, time_end))

\* as calculate_stint_rating, the quotients taken whatever the estimates
calculate_stint_rating_unguarded(stint, events) ==
    LET points_for == stint.score_team_out - stint.score_team_in
        points_against == stint.score_opp_out - stint.score_opp_in
        team_poss == count_possessions_in_range(events, stint.team_number,
                                                stint.time_in, stint.time_out)
        opp_tno == IF stint.team_number = 1 THEN 2 ELSE 1
        opp_poss == count_possessions_in_range(events, opp_tno,
                                               stint.time_in, stint.time_out)
    IN  [possessions    |-> team_poss,
         points_for     |-> points_for,
         points_against |-> points_against,
         ortg |-> Frac(points_for * 10000, team_poss),
         drtg |-> Frac(points_against * 10000, opp_poss)]

\* as calculate_stint_rating, the opponent's possessions counted for the
\* player's own team
calculate_stint_rating_own_team_twice(stint, events) ==
    LET points_for == stint.score_team_out - stint.score_team_in
        points_against == stint.score_opp_out - stint.score_opp_in
        team_poss == count_possessions_in_range(events, stint.team_number,
                                                stint.time_in, stint.time_out)
        opp_poss == team_poss
    IN  [possessions    |-> team_poss,
         points_for     |-> points_for,
         points_against |-> points_against,
         ortg |-> IF team_poss > 0 THEN Frac(points_for * 10000, team_poss)
                  ELSE Frac(0, 1),
         drtg |-> IF opp_poss > 0 THEN Frac(points_against * 10000, opp_poss)
                  ELSE Frac(0, 1)]

\* (points / poss) * 100 with poss in hundredths
calculate_stint_rating(stint, events) ==
    LET points_for == stint.score_team_out - stint.score_team_in
        points_against == stint.score_opp_out - stint.score_opp_in
        team_poss == count_possessions_in_range(events, stint.team_number,
                                                stint.time_in, stint.time_out)
        opp_tno == IF stint.team_number = 1 THEN 2 ELSE 1
        opp_poss == count_possessions_in_range(events, opp_tno,
                                               stint.time_in, stint.time_out)
    IN  [possessions    |-> team_poss,
         points_for     |-> points_for,
         points_against |-> points_against,
         ortg |-> IF team_poss > 0 THEN Frac(points_for * 10000, team_poss)
                  ELSE Frac(0, 1),
         drtg |-> IF opp_poss > 0 THEN Frac(points_against * 10000, opp_poss)
                  ELSE Frac(0, 1)]

\* line 111 for every stint of pr
stint_ratings_of(pr, events) ==
    [k \in 1..Len(pr.stints) |-> calculate_stint_rating(pr.stints[k], events)]

\* as player_rating, total_possessions set by each stint, not added to
player_rating_last_possessions(pr, team, events) ==
    LET srs == stint_ratings_of(pr, events)
        total_possessions == IF Len(srs) = 0 THEN 0 ELSE srs[Len(srs)].possessions
        total_points_for == SumSeq([k \in 1..Len(srs) |-> srs[k].points_for])
        total_points_against == SumSeq([k \in 1..Len(srs) |-> srs[k].points_against])
        ortg == IF total_possessions > 0
                THEN Frac(total_points_for * 10000, total_possessions)
                ELSE Frac(0, 1)
        drtg == IF total_possessions > 0
                THEN Frac(total_points_against * 10000, total_possessions)
                ELSE Frac(0, 1)
    IN  [shirt_number         |-> pr.shirt_number,
         player_name          |-> pr.player_name,
         team_number          |-> team,
         total_seconds        |-> pr.total_seconds,
         total_possessions    |-> total_possessions,
         total_points_for     |-> total_points_for,
         total_points_against |-> total_points_against,
         ortg                 |-> ortg,
         drtg                 |-> drtg,
         \* ortg - drtg, two quotients by total_possessions
         net_rating           |-> IF total_possessions > 0
                                  THEN Frac(ortg.num - drtg.num, total_possessions)
                                  ELSE Frac(0, 1)]

\* lines 103-125: the PlayerRating of pr
player_rating(pr, team, events) ==
    LET srs == stint_ratings_of(pr, events)
        total_possessions == SumSeq([k \in 1..Len(srs) |-> srs[k].possessions])
        total_points_for == SumSeq([k \in 1..Len(srs) |-> srs[k].points_for])
        total_points_against == SumSeq([k \in 1..Len(srs) |-> srs[k].points_against])
        ortg == IF total_possessions > 0
                THEN Frac(total_points_for * 10000, total_possessions)
                ELSE Frac(0, 1)
        drtg == IF total_possessions > 0
                THEN Frac(total_points_against * 10000, total_possessions)
                ELSE Frac(0, 1)
    IN  [shirt_number         |-> pr.shirt_number,
         player_name          |-> pr.player_name,
         team_number          |-> team,
         total_seconds        |-> pr.total_seconds,
         total_possessions    |-> total_possessions,
         total_points_for     |-> total_points_for,
         total_points_against |-> total_points_against,
         ortg                 |-> ortg,
         drtg                 |-> drtg,
         \* ortg - drtg, two quotients by total_possessions
         net_rating           |-> IF total_possessions > 0
                                  THEN Frac(ortg.num - drtg.num, total_possessions)
                                  ELSE Frac(0, 1)]

\* line 50 raises ValueError: some stint is rated and the clock of an event
\* of team 1 or 2 is no number
ratings_clock_error ==
    /\ \E t \in {1, 2} : \E k \in 1..Len(result[t]) : Len(result[t][k].stints) > 0
    /\ \E k \in 1..Len(game.events) :
           /\ game.events[k].team_number \in {1, 2}
           /\ ~clock_parses(game.events[k].game_time)

-----------------------------------------------------------------------------
(* The run: process_game of main.py calls parse_game, then calculate_rotations *)

no_game ==
    [final_score1 |-> 0, final_score2 |-> 0, num_periods |-> 0,
     players |-> <<>>, events |-> <<>>]

\* main.py line 28
ParseGame ==
    /\ pc = "parse"
    /\ game' = parse_game(raw)
    /\ result' = <<<<>>, <<>>>>
    /\ tno' = 1
    /\ pc' = "team"
    /\ UNCHANGED <<raw, idx, on_court, stint_start, rotations,
                   last_score1, last_score2, ratings, stint_ratings>>

\* rotations.py lines 73-103: the start of the pass of team tno
StartTeam ==
    /\ pc = "team"
    /\ rotations' = initial_rotations(tno)
    /\ on_court' = [sn \in starter_shirts(tno) |-> TRUE]
    /\ stint_start' = [sn \in starter_shirts(tno) |-> initial_stint_start]
    /\ last_score1' = 0
    /\ last_score2' = 0
    /\ idx' = 1
    /\ pc' = "events"
    /\ UNCHANGED <<raw, game, tno, result, ratings, stint_ratings>>

\* as ProcessEvent, without `and event.team_number == tno`
ProcessEvent_any_team ==
    /\ pc = "events"
    /\ idx <= Len(game.events)
    /\ LET event == game.events[idx]
           last == updated_last_score(event, last_score1, last_score2)
           is_sub == event.action_type = "substitution"
       IN  /\ last_score1' = last[1]
           /\ last_score2' = last[2]
           /\ IF is_sub /\ ~clock_parses(event.game_time)
              THEN \* ValueError leaves calculate_rotations
                   /\ pc' = "error"
                   /\ UNCHANGED <<idx, on_court, stint_start, rotations>>
              ELSE /\ pc' = "events"
                   /\ idx' = idx + 1
                   /\ IF is_sub
                      THEN LET abs_time == parse_time_to_seconds(event.game_time,
                                                                 event.period)
                               score == current_score_for_team(last[1], last[2], tno)
                           IN  /\ rotations' = rotations_after(event, abs_time, score)
                               /\ stint_start' = stint_start_after(event, abs_time, score)
                               /\ on_court' = on_court_after(event)
                      ELSE UNCHANGED <<on_court, stint_start, rotations>>
    /\ UNCHANGED <<raw, game, tno, result, ratings, stint_ratings>>

\* rotations.py lines 106-146: one iteration of the loop over game.events
ProcessEvent ==
    /\ pc = "events"
    /\ idx <= Len(game.events)
    /\ LET event == game.events[idx]
           last == updated_last_score(event, last_score1, last_score2)
           is_sub == event.action_type = "substitution" /\ event.team_number = tno
       IN  /\ last_score1' = last[1]
           /\ last_score2' = last[2]
           /\ IF is_sub /\ ~clock_parses(event.game_time)
              THEN \* ValueError leaves calculate_rotations
                   /\ pc' = "error"
                   /\ UNCHANGED <<idx, on_court, stint_start, rotations>>
              ELSE /\ pc' = "events"
                   /\ idx' = idx + 1
                   /\ IF is_sub
                      THEN LET abs_time == parse_time_to_seconds(event.game_time,
                                                                 event.period)
                               score == current_score_for_team(last[1], last[2], tno)
                           IN  /\ rotations' = rotations_after(event, abs_time, score)
                               /\ stint_start' = stint_start_after(event, abs_time, score)
                               /\ on_court' = on_court_after(event)
                      ELSE UNCHANGED <<on_court, stint_start, rotations>>
    /\ UNCHANGED <<raw, game, tno, result, ratings, stint_ratings>>

\* rotations.py lines 148-184: the end of the pass of team tno
FinishTeam ==
    /\ pc = "events"
    /\ idx > Len(game.events)
    /\ rotations' = with_total_seconds(closed_rotations)
    /\ result' = [result EXCEPT ![tno] = team_result(rotations', tno)]
    /\ IF tno = 1
       THEN tno' = 2 /\ pc' = "team"
       ELSE tno' = tno /\ pc' = "done"
    /\ UNCHANGED <<raw, game, idx, on_court, stint_start, last_score1, last_score2,
                   ratings, stint_ratings>>

Next == ParseGame \/ StartTeam \/ ProcessEvent \/ FinishTeam

\* main.py line 58: calculate_player_ratings(rotations, game)
CalculateRatings ==
    /\ pc = "done"
    /\ IF ratings_clock_error
       THEN /\ pc' = "error"
            /\ UNCHANGED <<ratings, stint_ratings>>
       ELSE /\ pc' = "rated"
            /\ ratings' = [t \in {1, 2} |->
                   [k \in 1..Len(result[t]) |->
                       player_rating(result[t][k], t, game.events)]]
            /\ stint_ratings' = [t \in {1, 2} |->
                   [k \in 1..Len(result[t]) |->
                       stint_ratings_of(result[t][k], game.events)]]
    /\ UNCHANGED <<raw, game, tno, idx, on_court, stint_start, rotations,
                   last_score1, last_score2, result>>

\* process_game up to the ratings
NextRatings == Next \/ CalculateRatings

-----------------------------------------------------------------------------
(* The feeds the model is checked on *)

Clock(a, b, c, d) == <<a, b, ":", c, d>>

\* (period, clock): absolute seconds 0, 600, 2400 and 2700
TimePoints ==
    {<<1, Clock("1", "0", "0", "0")>>, <<1, Clock("0", "0", "0", "0")>>,
     <<5, Clock("0", "5", "0", "0")>>, <<5, Clock("0", "0", "0", "0")>>}

\* 15:00 is no clock of a 10-minute period: 300 seconds before the game
BeforeGame == <<1, Clock("1", "5", "0", "0")>>

pl(shirt, name, starter) ==
    [shirtNumber |-> shirt, name |-> name, starter |-> starter]

\* team 1: shirts 4 and 7, team 2: shirt 4; Brown starts on the bench
Rosters ==
    {<<<<pl("4", "Adams", b), pl("7", "Brown", 0)>>, <<pl("4", "Clark", 1 - b)>>>> :
        b \in {0, 1}}

substitution(t, shirt, kind, at) ==
    [gt |-> at[2], period |-> at[1], tno |-> t, actionType |-> "substitution",
     subType |-> kind, shirtNumber |-> shirt]

shot(t, at) ==
    [gt |-> at[2], period |-> at[1], tno |-> t, actionType |-> "2pt",
     subType |-> "jumpshot", shirtNumber |-> "4", success |-> 1]

\* shirt 9 is on no roster
Substitutions ==
    {substitution(1, shirt, kind, at) :
        shirt \in {"4", "7"}, kind \in {"in", "out"}, at \in TimePoints}
    \cup
    {substitution(2, "4", kind, at) : kind \in {"in", "out"}, at \in TimePoints}
    \cup
    {substitution(1, "4", kind, BeforeGame) : kind \in {"in", "out"}}
    \cup
    {substitution(1, "9", "in", <<1, Clock("0", "0", "0", "0")>>),
     substitution(1, "9", "out", <<5, Clock("0", "5", "0", "0")>>)}

\* raw scores: a present pair, or s1 missing, or both empty strings
scored(e, s1, s2) == DictSet(DictSet(e, "s1", s1), "s2", s2)

ScoreTimePoints ==
    {<<1, Clock("0", "5", "0", "0")>>, <<2, Clock("0", "0", "0", "0")>>}

ScoredEvents ==
    LET subs == {substitution(t, "4", kind, at) :
                    t \in {1, 2}, kind \in {"in", "out"}, at \in ScoreTimePoints}
        at0 == <<1, Clock("0", "5", "0", "0")>>
    IN  subs
        \cup {scored(e, <<"2">>, <<"1">>) : e \in subs}
        \cup {scored(e, <<"1">>, <<"0">>) : e \in subs}
        \cup {substitution(1, "9", kind, at0) : kind \in {"in", "out"}}
        \cup {scored(shot(1, at0), <<"2">>, <<"1">>),
              scored(shot(1, at0), <<"1">>, <<"0">>),
              scored(shot(1, at0), <<"0">>, <<"0">>),
              scored(shot(1, at0), <<>>, <<>>),
              DictSet(shot(1, at0), "s2", <<"2">>)}

\* the feed lists the events newest first, numbered in play order
Feed(played) ==
    [k \in 1..Len(played) |->
        DictSet(played[Len(played) + 1 - k], "actionNumber", Len(played) + 1 - k)]

Feeds(events) ==
    {Feed(played) : played \in UNION {[1..n -> events] : n \in 0..MaxEvents}}

InitOn(rosters, events) ==
    /\ raw \in {[tm |-> r, pbp |-> f] : r \in rosters, f \in Feeds(events)}
    /\ game = no_game
    /\ tno = 0
    /\ idx = 0
    /\ on_court = <<>>
    /\ stint_start = <<>>
    /\ rotations = <<>>
    /\ last_score1 = 0
    /\ last_score2 = 0
    /\ result = <<<<>>, <<>>>>
    /\ ratings = <<<<>>, <<>>>>
    /\ stint_ratings = <<<<>>, <<>>>>
    /\ pc = "parse"

\* substitutions at many times, no scores
Init == InitOn(Rosters, Substitutions)

Spec == Init /\ [][Next]_vars

\* substitutions and shots that carry scores, at two times
InitScores == InitOn(Rosters, ScoredEvents)

SpecScores == InitScores /\ [][Next]_vars

\* team 1: shirts 4, 7 and 8, each a starter or not; team 2: shirt 4
OrderRosters ==
    {<<<<pl("4", "Adams", b4), pl("7", "Brown", b7), pl("8", "Davis", b8)>>,
       <<pl("4", "Clark", 1)>>>> : b4 \in {0, 1}, b7 \in {0, 1}, b8 \in {0, 1}}

\* absolute seconds 300 and 900
OrderTimePoints ==
    {<<1, Clock("0", "5", "0", "0")>>, <<2, Clock("0", "5", "0", "0")>>}

OrderEvents ==
    {substitution(1, shirt, kind, at) :
        shirt \in {"4", "7", "8"}, kind \in {"in", "out"}, at \in OrderTimePoints}

\* three players of one team who come on and off at two times
InitOrder == InitOn(OrderRosters, OrderEvents)

SpecOrder == InitOrder /\ [][Next]_vars

\* str.format of a clock: two digits, a colon, two digits
TwoDigits(n) == <<Digits[(n \div 10) + 1], Digits[(n % 10) + 1]>>

ClockString(mm, ss) == TwoDigits(mm) \o <<":">> \o TwoDigits(ss)

ClockRosters ==
    {<<<<pl("4", "Adams", 1), pl("7", "Brown", 0)>>, <<pl("4", "Clark", 1)>>>>}

\* clocks with no colon, with letters for the minutes, with letters for the
\* seconds
MalformedClocks == {<<"5">>, <<"x", ":", "0", "0">>, <<"1", "0", ":", "x">>}

\* shirt 7 of team 1 on and off in regulation and overtime periods; 10:00 is
\* no clock of a 5-minute period
ClockEvents ==
    {substitution(1, "7", "in", <<p, ClockString(mm, ss)>>) :
        p \in {1, 2, 5, 6}, mm \in {0, 5, 10}, ss \in {0}}
    \cup
    {substitution(1, "7", "in", <<p, ClockString(0, 30)>>) : p \in {1, 2, 5, 6}}
    \cup
    {substitution(1, "7", "out", <<p, ClockString(mm, 0)>>) :
        p \in {1, 2, 5, 6}, mm \in {0, 5}}
    \cup
    {substitution(1, "7", "in", <<1, gt>>) : gt \in MalformedClocks}

\* substitutions over many clocks and periods, some clocks malformed
InitClock == InitOn(ClockRosters, ClockEvents)

SpecClock == InitClock /\ [][Next]_vars

\* the event that ends a period, as the feed reports it
period_end(reported) ==
    [gt |-> ClockString(0, 0), period |-> reported, tno |-> 0,
     actionType |-> "period", subType |-> "end"]

\* a feed that reports every period end as period 1, a substitution-in as
\* period 1 and a substitution-out as period 3, wherever they are played
PeriodEvents ==
    {period_end(1),
     substitution(1, "7", "in", <<1, ClockString(5, 0)>>),
     substitution(1, "7", "out", <<3, ClockString(5, 0)>>)}

PeriodFeeds ==
    {Feed(played) : played \in UNION {[1..n -> PeriodEvents] : n \in 0..MaxPeriodEvents}}

\* logs long enough for five and more period ends
InitPeriods ==
    /\ raw \in {[tm |-> r, pbp |-> f] : r \in ClockRosters, f \in PeriodFeeds}
    /\ game = no_game
    /\ tno = 0
    /\ idx = 0
    /\ on_court = <<>>
    /\ stint_start = <<>>
    /\ rotations = <<>>
    /\ last_score1 = 0
    /\ last_score2 = 0
    /\ result = <<<<>>, <<>>>>
    /\ ratings = <<<<>>, <<>>>>
    /\ stint_ratings = <<<<>>, <<>>>>
    /\ pc = "parse"

SpecPeriods == InitPeriods /\ [][Next]_vars

\* a play that is no substitution
play(t, kind, sub, made, at) ==
    [gt |-> at[2], period |-> at[1], tno |-> t, actionType |-> kind,
     subType |-> sub, shirtNumber |-> "4", success |-> made]

\* absolute seconds 300 and 900
RatingTimeA == <<1, ClockString(5, 0)>>

RatingTimeB == <<2, ClockString(5, 0)>>

\* team 1 changes shirts 4 and 7 at 300 and 900; plays of both teams there
RatingEvents ==
    {substitution(1, "4", "out", RatingTimeA),
     substitution(1, "7", "in", RatingTimeA),
     substitution(1, "4", "in", RatingTimeB),
     substitution(1, "7", "out", RatingTimeB),
     scored(play(1, "2pt", "jumpshot", 1, RatingTimeA), <<"2">>, <<"0">>),
     scored(play(1, "freethrow", "1of1", 1, RatingTimeA), <<"3">>, <<"0">>),
     play(1, "rebound", "offensive", 0, RatingTimeB),
     play(1, "turnover", "badpass", 0, RatingTimeA),
     scored(play(2, "3pt", "jumpshot", 1, RatingTimeA), <<"2">>, <<"3">>),
     play(2, "rebound", "offensive", 0, RatingTimeB)}

Repeat(e, n) == [k \in 1..n |-> e]

\* team 1 at second 300: 10 field goal attempts (2pt and 3pt, made and
\* missed), 2 offensive rebounds, 3 turnovers, 5 free throws; the last shot
\* makes it 20-18.  With `others`: plays that are none of these and plays
\* of team 2.  With `later`: shirt 4 comes off at 300 and team 1 plays on
\* at 900.
BoxScorePlays(others, later) ==
    Repeat(play(1, "2pt", "layup", 1, RatingTimeA), 3)
    \o Repeat(play(1, "2pt", "jumpshot", 0, RatingTimeA), 3)
    \o Repeat(play(1, "3pt", "jumpshot", 0, RatingTimeA), 3)
    \o Repeat(play(1, "rebound", "offensive", 0, RatingTimeA), 2)
    \o Repeat(play(1, "turnover", "travel", 0, RatingTimeA), 3)
    \o Repeat(play(1, "freethrow", "1of2", 0, RatingTimeA), 5)
    \o (IF others
        THEN <<play(1, "rebound", "defensive", 0, RatingTimeA),
               play(1, "foul", "personal", 0, RatingTimeA),
               play(1, "assist", "", 0, RatingTimeA),
               play(2, "2pt", "jumpshot", 0, RatingTimeA),
               play(2, "turnover", "travel", 0, RatingTimeA)>>
        ELSE <<>>)
    \o <<scored(play(1, "3pt", "jumpshot", 1, RatingTimeA),
                <<"2", "0">>, <<"1", "8">>)>>
    \o (IF later
        THEN <<substitution(1, "4", "out", RatingTimeA),
               play(1, "2pt", "jumpshot", 0, RatingTimeB),
               play(1, "freethrow", "1of1", 0, RatingTimeB)>>
        ELSE <<>>)

RatingFeeds ==
    {Feed(played) : played \in UNION {[1..n -> RatingEvents] : n \in 0..MaxRatingEvents}}
    \cup {Feed(BoxScorePlays(others, later)) : others \in BOOLEAN, later \in BOOLEAN}

\* short logs of substitutions and plays, and four box scores
InitRatings ==
    /\ raw \in {[tm |-> r, pbp |-> f] : r \in ClockRosters, f \in RatingFeeds}
    /\ game = no_game
    /\ tno = 0
    /\ idx = 0
    /\ on_court = <<>>
    /\ stint_start = <<>>
    /\ rotations = <<>>
    /\ last_score1 = 0
    /\ last_score2 = 0
    /\ result = <<<<>>, <<>>>>
    /\ ratings = <<<<>>, <<>>>>
    /\ stint_ratings = <<<<>>, <<>>>>
    /\ pc = "parse"

SpecRatings == InitRatings /\ [][NextRatings]_vars

-----------------------------------------------------------------------------
(* Properties *)

abs_time_of(e) == parse_time_to_seconds(e.game_time, e.period)

\* the absolute times of the events never decrease along the list
TimeOrdered ==
    \A k \in 1..(Len(game.events) - 1) :
        abs_time_of(game.events[k]) <= abs_time_of(game.events[k + 1])

\* the length of period p, stated apart from the code
PeriodLength(p) == IF p <= 4 THEN 600 ELSE 300

\* every clock shows between 0 and the length of its period
ClocksInPeriod ==
    \A k \in 1..Len(game.events) :
        LET e == game.events[k]
            elapsed == abs_time_of(e) - SumSeq([p \in 1..(e.period - 1) |-> PeriodLength(p)])
        IN  0 <= elapsed /\ elapsed <= PeriodLength(e.period)

GameEnd == SumSeq([p \in 1..game.num_periods |-> PeriodLength(p)])

\* every list of stints the run holds: the pass in progress and the results
StintLists ==
    {rotations[sn].stints : sn \in DOMAIN rotations}
    \cup UNION {{result[t][k].stints : k \in 1..Len(result[t])} : t \in {1, 2}}

\* some instant lies in both [time_in, time_out) intervals
Overlap(a, b) ==
    /\ a.time_in < a.time_out /\ b.time_in < b.time_out
    /\ a.time_in < b.time_out /\ b.time_in < a.time_out

\* C1: when the events are in time order, the stints of every player are
\* chronological (each ends no later than the next begins) and no two of
\* them overlap.
C1_StintsDisjoint ==
    \/ \A stints \in StintLists :
           /\ \A k \in 1..(Len(stints) - 1) :
                  stints[k].time_out <= stints[k + 1].time_in
           /\ \A j, k \in 1..Len(stints) :
                  j # k => ~Overlap(stints[j], stints[k])
    \/ ~TimeOrdered

\* a player came off and went on again later: two stints of positive length
C1_Witness ==
    /\ pc = "done"
    /\ TimeOrdered
    /\ \E stints \in StintLists :
           /\ Len(stints) >= 2
           /\ stints[1].time_in < stints[1].time_out
           /\ stints[1].time_out < stints[2].time_in
           /\ stints[2].time_in < stints[2].time_out

\* C2: when the events are in time order and every clock lies inside its
\* period, every stint has time_in < time_out.
C2_StintsPositive ==
    \/ \A stints \in StintLists :
           \A k \in 1..Len(stints) : stints[k].time_in < stints[k].time_out
    \/ ~(TimeOrdered /\ ClocksInPeriod)

\* the step that ends the pass of a team
FinishStep == pc = "events" /\ idx > Len(game.events) /\ pc' # "events"

Last(seq) == seq[Len(seq)]

\* C3: the step after the last event gives every roster player still on
\* court exactly one more stint, the last of the player's list, that ends at
\* the end of the game (600 s for each of the periods 1-4, 300 s for each
\* later one); the other players' stints stay as they are.
C3_OpenStintsClosedAtGameEnd ==
    [][FinishStep =>
        /\ DOMAIN rotations' = DOMAIN rotations
        /\ \A sn \in DOMAIN rotations :
              IF sn \in DOMAIN on_court
              THEN /\ Len(rotations'[sn].stints) = Len(rotations[sn].stints) + 1
                   /\ SubSeq(rotations'[sn].stints, 1, Len(rotations[sn].stints))
                          = rotations[sn].stints
                   /\ Last(rotations'[sn].stints).time_out = GameEnd
              ELSE rotations'[sn].stints = rotations[sn].stints]_vars

\* a game with an overtime period ended with a roster player on court
C3_Witness ==
    /\ pc = "done"
    /\ game.num_periods >= 5
    /\ \E sn \in DOMAIN rotations \cap DOMAIN on_court :
           /\ Len(rotations[sn].stints) >= 2
           /\ Last(rotations[sn].stints).time_out = 2700

\* C4: when the events are in time order and every clock lies inside its
\* period (no period is later than num_periods), total_seconds of every
\* player is the sum of the player's stint durations and is at most the
\* length of the game.
C4_TotalSecondsBounded ==
    \/ \A t \in {1, 2} : \A k \in 1..Len(result[t]) :
           LET r == result[t][k]
           IN  /\ r.total_seconds =
                      SumSeq([j \in 1..Len(r.stints) |->
                                 r.stints[j].time_out - r.stints[j].time_in])
               /\ r.total_seconds <= GameEnd
    \/ ~(/\ TimeOrdered
         /\ ClocksInPeriod
         /\ \A k \in 1..Len(game.events) : game.events[k].period <= game.num_periods)

\* a player was sent on twice in a row and still played less than the game
C4_Witness ==
    /\ pc = "done"
    /\ TimeOrdered /\ ClocksInPeriod
    /\ Len(game.events) = 2
    /\ \A k \in 1..2 : /\ game.events[k].sub_type = "in"
                       /\ game.events[k].team_number = 1
                       /\ game.events[k].shirt_number = "7"
    /\ abs_time_of(game.events[1]) < abs_time_of(game.events[2])
    /\ \E k \in 1..Len(result[1]) :
           /\ result[1][k].shirt_number = "7"
           /\ result[1][k].total_seconds > 0
           /\ result[1][k].total_seconds < GameEnd

\* the shirt numbers the feed flags as starters of team t
RawStarters(t) ==
    {raw.tm[t][k].shirtNumber : k \in {j \in 1..Len(raw.tm[t]) : raw.tm[t][j].starter = 1}}

\* C5: before the first event of a pass is processed, the players on court
\* are exactly the starters of the team, and each of them holds an open
\* record with entry time 0, entry period 1 and entry score 0-0.
C5_StartersOnCourt ==
    (pc = "events" /\ idx = 1) =>
        /\ DOMAIN on_court = RawStarters(tno)
        /\ DOMAIN stint_start = RawStarters(tno)
        /\ \A sn \in DOMAIN stint_start :
               stint_start[sn] = [time |-> 0, period |-> 1,
                                  score_team |-> 0, score_opp |-> 0]

\* a pass starts with a starter on court and a roster player on the bench
C5_Witness ==
    /\ pc = "events" /\ idx = 1
    /\ "4" \in DOMAIN on_court
    /\ "7" \in DOMAIN rotations
    /\ "7" \notin DOMAIN on_court

\* the event the loop is about to process
CurEvent == game.events[idx]

\* the next step processes a substitution event of the team of the pass
SubStep(kind) ==
    /\ pc = "events"
    /\ idx <= Len(game.events)
    /\ CurEvent.action_type = "substitution"
    /\ CurEvent.team_number = tno
    /\ CurEvent.sub_type = kind
    /\ clock_parses(CurEvent.game_time)

\* the score snapshot as (team, opponent) of team t
Oriented(s1, s2, t) == IF t = 1 THEN <<s1, s2>> ELSE <<s2, s1>>

\* C6: a substitution-out of a shirt recorded on court removes the shirt
\* from the court and from the open records; a roster player gets exactly
\* one more stint, whose entry time and entry score are those of the open
\* record, whose time_out is the absolute time of the event and whose exit
\* score is the snapshot after this event as (team, opponent); nobody
\* else's stints or records change.
C6_SubOutClosesStint ==
    [][(SubStep("out") /\ CurEvent.shirt_number \in DOMAIN on_court) =>
        LET sn == CurEvent.shirt_number
            now == Oriented(last_score1', last_score2', tno)
        IN  /\ DOMAIN on_court' = DOMAIN on_court \ {sn}
            /\ stint_start' = [x \in DOMAIN stint_start \ {sn} |-> stint_start[x]]
            /\ DOMAIN rotations' = DOMAIN rotations
            /\ \A x \in DOMAIN rotations \ {sn} : rotations'[x] = rotations[x]
            /\ sn \in DOMAIN rotations =>
                 /\ Len(rotations'[sn].stints) = Len(rotations[sn].stints) + 1
                 /\ SubSeq(rotations'[sn].stints, 1, Len(rotations[sn].stints))
                        = rotations[sn].stints
                 /\ LET st == Last(rotations'[sn].stints)
                    IN  /\ st.time_in = stint_start[sn].time
                        /\ st.score_team_in = stint_start[sn].score_team
                        /\ st.score_opp_in = stint_start[sn].score_opp
                        /\ st.time_out = abs_time_of(CurEvent)
                        /\ st.score_team_out = now[1]
                        /\ st.score_opp_out = now[2]]_vars

\* a player of team 2 came off at 1-2 seen from team 2 (2-1 in the feed)
C6_Witness ==
    /\ pc = "events" /\ tno = 2 /\ idx = 3
    /\ game.events[2].action_type = "substitution"
    /\ game.events[2].team_number = 2
    /\ game.events[2].sub_type = "out"
    /\ "4" \notin DOMAIN on_court
    /\ Len(rotations["4"].stints) = 1
    /\ rotations["4"].stints[1].time_in = 300
    /\ rotations["4"].stints[1].time_out = 1200
    /\ rotations["4"].stints[1].score_team_out = 1
    /\ rotations["4"].stints[1].score_opp_out = 2

\* C7: a substitution-out of a shirt that is not recorded on court changes
\* neither the players on court, nor the open records, nor anybody's
\* stints, and the pass goes on without an error.
C7_SubOutOffCourtIgnored ==
    [][(SubStep("out") /\ CurEvent.shirt_number \notin DOMAIN on_court) =>
        /\ on_court' = on_court
        /\ stint_start' = stint_start
        /\ rotations' = rotations
        /\ pc' = "events"
        /\ idx' = idx + 1]_vars

\* the first event took a bench player off while a starter was on court
C7_Witness ==
    /\ pc = "events" /\ tno = 1 /\ idx = 2
    /\ game.events[1].action_type = "substitution"
    /\ game.events[1].team_number = 1
    /\ game.events[1].sub_type = "out"
    /\ game.events[1].shirt_number = "7"
    /\ DOMAIN on_court = {"4"}
    /\ rotations["7"].stints = <<>>

\* the time of the latest substitution-in of shirt sn of the team of the
\* pass among the events already processed, 0 when there is none
EntryTime(sn) ==
    LET ins == {k \in 1..(idx - 1) :
                   /\ game.events[k].action_type = "substitution"
                   /\ game.events[k].team_number = tno
                   /\ game.events[k].sub_type = "in"
                   /\ game.events[k].shirt_number = sn}
    IN  IF ins = {} THEN 0
        ELSE abs_time_of(game.events[CHOOSE k \in ins : \A j \in ins : j <= k])

\* C8: a substitution-in puts the shirt on court with an open record that
\* holds the absolute time and the period of the event and the snapshot
\* after it as (team, opponent), replacing any record the shirt had; it
\* emits no stint and changes nobody else's record.  Every stint closed
\* later for a player starts at the latest substitution-in of that player.
C8_SubInOpensRecord ==
    [][/\ SubStep("in") =>
            LET sn == CurEvent.shirt_number
                now == Oriented(last_score1', last_score2', tno)
            IN  /\ DOMAIN on_court' = DOMAIN on_court \cup {sn}
                /\ DOMAIN stint_start' = DOMAIN stint_start \cup {sn}
                /\ stint_start'[sn] = [time |-> abs_time_of(CurEvent),
                                       period |-> CurEvent.period,
                                       score_team |-> now[1],
                                       score_opp |-> now[2]]
                /\ \A x \in DOMAIN stint_start \ {sn} : stint_start'[x] = stint_start[x]
                /\ rotations' = rotations
       /\ pc = "events" =>
            \A sn \in DOMAIN rotations :
                Len(rotations'[sn].stints) > Len(rotations[sn].stints) =>
                    Last(rotations'[sn].stints).time_in = EntryTime(sn)]_vars

\* team 1 sent shirt 4 on at 300 and again at 1200: the pass ended with a
\* stint that starts at 1200
C8_Witness ==
    /\ pc = "team" /\ tno = 2
    /\ Len(game.events) = 2
    /\ \A k \in 1..2 : /\ game.events[k].action_type = "substitution"
                       /\ game.events[k].team_number = 1
                       /\ game.events[k].sub_type = "in"
                       /\ game.events[k].shirt_number = "4"
    /\ abs_time_of(game.events[1]) = 300
    /\ abs_time_of(game.events[2]) = 1200
    /\ Len(rotations["4"].stints) = 1
    /\ rotations["4"].stints[1].time_in = 1200
    /\ rotations["4"].stints[1].score_team_in = 2

\* the raw event behind game.events[k]
RawEvent(k) ==
    CHOOSE e \in {raw.pbp[j] : j \in 1..Len(raw.pbp)} :
        e.actionNumber = game.events[k].action_number

\* both raw scores are there and neither is the empty string
NonEmptyPair(e) ==
    /\ "s1" \in DOMAIN e /\ "s2" \in DOMAIN e
    /\ e.s1 # <<>> /\ e.s2 # <<>>

\* C9: the snapshot after the first n events is the score pair of the
\* latest of them whose raw score pair is non-empty, and 0-0 when there is
\* none; events with missing or empty scores leave it as it is.
C9_SnapshotIsLatestNonEmptyPair ==
    pc = "events" =>
        LET seen == {k \in 1..(idx - 1) : NonEmptyPair(RawEvent(k))}
            latest == CHOOSE k \in seen : \A j \in seen : j <= k
        IN  <<last_score1, last_score2>> =
                IF seen = {} THEN <<0, 0>>
                ELSE <<game.events[latest].score1, game.events[latest].score2>>

\* C10: the total of the snapshot never goes down from one event to the
\* next, and the exit total of every stint is at least its entry total.
C10_SnapshotTotalNeverDecreases ==
    [][/\ (pc = "events" /\ pc' = "events") =>
            last_score1' + last_score2' >= last_score1 + last_score2
       /\ \A sn \in DOMAIN rotations' :
            \A k \in 1..Len(rotations'[sn].stints) :
                LET st == rotations'[sn].stints[k]
                IN  st.score_team_out + st.score_opp_out
                        >= st.score_team_in + st.score_opp_in]_vars

\* C11: the step after the last event gives every stint it closes the score
\* snapshot in effect after the last event of the log as exit score, as
\* (team, opponent) of the player's team.
C11_TerminalExitScoreIsLastSnapshot ==
    [][FinishStep =>
        \A sn \in DOMAIN rotations \cap DOMAIN on_court :
            LET st == Last(rotations'[sn].stints)
                now == Oriented(last_score1, last_score2, tno)
            IN  /\ st.score_team_out = now[1]
                /\ st.score_opp_out = now[2]]_vars

\* C12: the list returned for each team holds exactly one record for every
\* player of the team's roster, also for a player who never played (whose
\* record has no stints and total_seconds = 0).
C12_EveryRosterPlayerReturned ==
    pc = "done" =>
        \A t \in {1, 2} :
            /\ Len(result[t]) = Len(raw.tm[t])
            /\ \A j \in 1..Len(raw.tm[t]) :
                   \E k \in 1..Len(result[t]) :
                       /\ result[t][k].shirt_number = raw.tm[t][j].shirtNumber
                       /\ \A i \in 1..Len(result[t]) :
                              result[t][i].shirt_number = result[t][k].shirt_number
                                  => i = k

\* the place of shirt sn in the roster of team t as the feed lists it
RosterIndex(t, sn) ==
    CHOOSE j \in 1..Len(raw.tm[t]) :
        /\ raw.tm[t][j].shirtNumber = sn
        /\ \A i \in 1..(j - 1) : raw.tm[t][i].shirtNumber # sn

\* the pass of team t has just ended: rotations holds its records
JustFinished(t) == (t = 1 /\ pc = "team" /\ tno = 2) \/ (t = 2 /\ pc = "done")

\* C13: in the list returned for a team all starters come before all
\* non-starters; the list holds the starters and the non-starters with
\* total_seconds > 0; inside each of the two groups total_seconds never
\* goes up along the list, and players with equal total_seconds are in
\* roster order.
C13_ResultOrder ==
    \A t \in {1, 2} :
        /\ \A i, j \in 1..Len(result[t]) :
               i < j =>
                   LET a == result[t][i]
                       b == result[t][j]
                   IN  /\ a.is_starter \/ ~b.is_starter
                       /\ a.is_starter = b.is_starter =>
                            /\ a.total_seconds >= b.total_seconds
                            /\ a.total_seconds = b.total_seconds =>
                                 RosterIndex(t, a.shirt_number)
                                     < RosterIndex(t, b.shirt_number)
        /\ \A k \in 1..Len(result[t]) :
               /\ result[t][k].is_starter
                      <=> result[t][k].shirt_number \in RawStarters(t)
               /\ result[t][k].is_starter \/ result[t][k].total_seconds > 0
        /\ JustFinished(t) =>
               {result[t][k] : k \in 1..Len(result[t])}
                   = {rotations[sn] : sn \in
                         {x \in DOMAIN rotations :
                             \/ x \in RawStarters(t)
                             \/ rotations[x].total_seconds > 0}}

\* the only starter is last in the roster and first in the list; the two
\* others came on at the same second, the later of the roster first, and
\* are listed in roster order
C13_Witness ==
    /\ pc = "done"
    /\ RawStarters(1) = {"8"}
    /\ Len(game.events) = 2
    /\ game.events[1].shirt_number = "7"
    /\ game.events[2].shirt_number = "4"
    /\ Len(result[1]) = 3
    /\ result[1][1].shirt_number = "8"
    /\ result[1][2].shirt_number = "4"
    /\ result[1][3].shirt_number = "7"
    /\ result[1][2].total_seconds = result[1][3].total_seconds
    /\ result[1][1].total_seconds > result[1][2].total_seconds

\* gt reads MM:SS, two digits each
IsClock(gt) ==
    /\ Len(gt) = 5
    /\ gt[3] = ":"
    /\ \A k \in {1, 2, 4, 5} : \E n \in 0..9 : TwoDigits(n)[2] = gt[k]

DigitAt(gt, k) == CHOOSE n \in 0..9 : TwoDigits(n)[2] = gt[k]

\* the seconds left on the clock of event e
Remaining(e) ==
    60 * (10 * DigitAt(e.game_time, 1) + DigitAt(e.game_time, 2))
    + 10 * DigitAt(e.game_time, 4) + DigitAt(e.game_time, 5)

\* the seconds played before period p began
PlayedBefore(p) == SumSeq([q \in 1..(p - 1) |-> PeriodLength(q)])

\* C14: for a period p >= 1 and a clock MM:SS the absolute time computed
\* for an event is the sum of the lengths of the periods 1..p-1 plus the
\* length of period p minus (60*MM + SS), a period lasting 600 s up to the
\* fourth and 300 s from the fifth; so 10:00 of period 1 is 0, 00:00 of
\* period 1 is 600 and 05:00 of period 5 is 2400.
C14_AbsoluteTimeFormula ==
    [][(SubStep("in") /\ IsClock(CurEvent.game_time) /\ CurEvent.period >= 1) =>
        LET p == CurEvent.period
            t == stint_start'[CurEvent.shirt_number].time
        IN  /\ t = PlayedBefore(p) + PeriodLength(p) - Remaining(CurEvent)
            /\ (p = 1 /\ CurEvent.game_time = <<"1", "0", ":", "0", "0">>) => t = 0
            /\ (p = 1 /\ CurEvent.game_time = <<"0", "0", ":", "0", "0">>) => t = 600
            /\ (p = 5 /\ CurEvent.game_time = <<"0", "5", ":", "0", "0">>) => t = 2400]_vars

\* a player came on at 00:30 of the second overtime period: second 2970
C14_Witness ==
    /\ pc = "events" /\ tno = 1 /\ idx = 2
    /\ game.events[1].sub_type = "in"
    /\ game.events[1].period = 6
    /\ game.events[1].game_time = <<"0", "0", ":", "3", "0">>
    /\ stint_start["7"].time = 2970

\* the clock of e is a clock of its period
InPeriod(e) ==
    /\ IsClock(e.game_time)
    /\ e.period >= 1
    /\ Remaining(e) <= PeriodLength(e.period)

\* e1 is not later than e2 on the game clock
NotLater(e1, e2) ==
    \/ e1.period < e2.period
    \/ e1.period = e2.period /\ Remaining(e1) >= Remaining(e2)

\* the latest substitution-in of shirt sn of the team of the pass among the
\* events already processed (0 when there is none)
EntryEvent(sn) ==
    LET ins == {k \in 1..(idx - 1) :
                   /\ game.events[k].action_type = "substitution"
                   /\ game.events[k].team_number = tno
                   /\ game.events[k].sub_type = "in"
                   /\ game.events[k].shirt_number = sn}
    IN  IF ins = {} THEN 0 ELSE CHOOSE k \in ins : \A j \in ins : j <= k

\* C15: the absolute time grows along the game clock.  When a player comes
\* off, the entry and the exit both having a clock of their period: if the
\* entry is in an earlier period than the exit, or in the same period with
\* at least as much time left, then the entry time computed is at most the
\* exit time computed, and both lie between 0 and the end of the game.
C15_AbsoluteTimeMonotone ==
    [][(/\ SubStep("out")
        /\ CurEvent.shirt_number \in DOMAIN on_court \cap DOMAIN rotations
        /\ EntryEvent(CurEvent.shirt_number) # 0) =>
        LET sn == CurEvent.shirt_number
            entry == game.events[EntryEvent(sn)]
            st == Last(rotations'[sn].stints)
        IN  (InPeriod(entry) /\ InPeriod(CurEvent)) =>
                /\ 0 <= st.time_in /\ st.time_in <= GameEnd
                /\ 0 <= st.time_out /\ st.time_out <= GameEnd
                /\ NotLater(entry, CurEvent) => st.time_in <= st.time_out]_vars

\* a player came on at 00:30 of period 2 and off at 05:00 of period 5
C15_Witness ==
    /\ pc = "events" /\ tno = 1 /\ idx = 3
    /\ game.events[1].sub_type = "in"
    /\ game.events[1].period = 2
    /\ game.events[2].sub_type = "out"
    /\ game.events[2].period = 5
    /\ Len(rotations["7"].stints) = 1
    /\ rotations["7"].stints[1].time_in = 1170
    /\ rotations["7"].stints[1].time_out = 2400

\* gt has no colon, or a part before or after its first colon that is not
\* a number
Malformed(gt) ==
    ~\E c \in 1..Len(gt) :
        /\ gt[c] = ":"
        /\ c > 1 /\ c < Len(gt)
        /\ \A k \in (1..Len(gt)) \ {c} : \E n \in 0..9 : TwoDigits(n)[2] = gt[k]

\* C20: a malformed clock is a fatal input error: when the time of an event
\* with a malformed clock is computed, the computation ends in an error and
\* no time is given to the event.
C20_MalformedClockIsFatal ==
    [][(/\ pc = "events"
        /\ idx <= Len(game.events)
        /\ CurEvent.action_type = "substitution"
        /\ CurEvent.team_number = tno
        /\ Malformed(CurEvent.game_time)) =>
            /\ pc' = "error"
            /\ stint_start' = stint_start]_vars

\* the period-end events of the log
Boundaries ==
    {j \in 1..Len(raw.pbp) :
        raw.pbp[j].actionType = "period" /\ raw.pbp[j].subType = "end"}

NumBoundaries == Cardinality(Boundaries)

\* the period-end events played before game.events[k]
BoundariesBefore(k) ==
    Cardinality({j \in Boundaries :
                    raw.pbp[j].actionNumber < game.events[k].action_number})

Min(a, b) == IF a < b THEN a ELSE b

\* C16: when the log holds B > 4 period-end events, every event gets the
\* period min(1 + number of period-end events with a smaller action number,
\* B), whatever period the feed reported; with B = 5 an event after the
\* fourth period end gets period 5 and an event before the first keeps
\* period 1.
C16_PeriodsReassigned ==
    (pc # "parse" /\ NumBoundaries > 4) =>
        \A k \in 1..Len(game.events) :
            /\ game.events[k].period = Min(1 + BoundariesBefore(k), NumBoundaries)
            /\ (NumBoundaries = 5 /\ BoundariesBefore(k) >= 4) =>
                   game.events[k].period = 5
            /\ BoundariesBefore(k) = 0 => game.events[k].period = 1

\* five period ends; the substitution before the first is in period 1, the
\* one after the fourth, reported as period 3, is in period 5
C16_Witness ==
    /\ pc = "team"
    /\ NumBoundaries = 5
    /\ Len(game.events) = 7
    /\ game.events[1].action_type = "substitution"
    /\ game.events[1].period = 1
    /\ game.events[6].action_type = "substitution"
    /\ RawEvent(6).period = 3
    /\ game.events[6].period = 5

\* C17: correcting a log that was already corrected gives every event the
\* period the first correction gave it; the game parsed from the corrected
\* log has the events of the game parsed from the log.  (Stated of the
\* state parse_game leaves: raw and game do not change after it.)
C17_CorrectionIdempotent ==
    (pc = "team" /\ tno = 1) =>
        LET once == fix_period_numbers(raw.pbp)
            twice == fix_period_numbers(once)
        IN  /\ Len(twice) = Len(once)
            /\ \A k \in 1..Len(once) :
                   Get(twice[k], "period", 1) = Get(once[k], "period", 1)
            /\ parse_game([raw EXCEPT !.pbp = once]).events = game.events

\* a log with five period ends in which the correction moved an event
C17_Witness ==
    /\ pc = "team"
    /\ NumBoundaries = 5
    /\ Len(game.events) = 6
    /\ game.events[3].action_type = "substitution"
    /\ RawEvent(3).period = 1
    /\ game.events[3].period = 3

\* C18: when the log holds four or fewer period-end events, every event
\* keeps the period the feed reported, also when the reported periods do
\* not fit the period ends.
C18_FewBoundariesNoChange ==
    (pc # "parse" /\ NumBoundaries <= 4) =>
        \A k \in 1..Len(game.events) :
            game.events[k].period = RawEvent(k).period

\* four period ends and then a substitution reported as period 1
C18_Witness ==
    /\ pc = "team"
    /\ NumBoundaries = 4
    /\ Len(game.events) = 5
    /\ game.events[5].action_type = "substitution"
    /\ BoundariesBefore(5) = 4
    /\ game.events[5].period = 1

\* C19: for a log with B > 4 period-end events parse_game derives
\* everything from the corrected log: num_periods is B, every event carries
\* its corrected period, and the stints open at the end of a pass are closed
\* at 2400 + 300 * (B - 4).
C19_DerivedFromCorrectedLog ==
    (pc # "parse" /\ NumBoundaries > 4) =>
        /\ game.num_periods = NumBoundaries
        /\ \A k \in 1..Len(game.events) :
               game.events[k].period = Min(1 + BoundariesBefore(k), NumBoundaries)
        /\ \A t \in {1, 2} :
               JustFinished(t) =>
                   \A sn \in DOMAIN rotations \cap DOMAIN on_court :
                       Last(rotations[sn].stints).time_out
                           = 2400 + 300 * (NumBoundaries - 4)

\* six period ends, all reported as period 1: the starter of team 2 is
\* closed at second 3000
C19_Witness ==
    /\ pc = "done"
    /\ NumBoundaries = 6
    /\ \A k \in 1..Len(raw.pbp) : raw.pbp[k].period = 1
    /\ game.num_periods = 6
    /\ "4" \in DOMAIN on_court
    /\ Last(rotations["4"].stints).time_out = 3000

\* the stints that were rated: team, place in the returned list, place in
\* the player's stints
RatedStints ==
    IF pc # "rated" THEN {}
    ELSE UNION {UNION {{<<t, k, j>> : j \in 1..Len(result[t][k].stints)} :
                          k \in 1..Len(result[t])} : t \in {1, 2}}

StintAt(x) == result[x[1]][x[2]].stints[x[3]]

RatingAt(x) == stint_ratings[x[1]][x[2]][x[3]]

\* the events of a team whose absolute time lies in [a, b], both ends included
Window(team, a, b) ==
    {i \in 1..Len(game.events) :
        /\ game.events[i].team_number = team
        /\ a <= abs_time_of(game.events[i])
        /\ abs_time_of(game.events[i]) <= b}

FieldGoalAttempts(w) == {i \in w : game.events[i].action_type \in {"2pt", "3pt"}}

FreeThrowAttempts(w) == {i \in w : game.events[i].action_type = "freethrow"}

OffensiveRebounds(w) ==
    {i \in w : /\ game.events[i].action_type = "rebound"
               /\ game.events[i].sub_type = "offensive"}

Turnovers(w) == {i \in w : game.events[i].action_type = "turnover"}

\* FGA - OREB + TO + 0.44 * FTA over the events w, in hundredths
Estimate(w) ==
    100 * Cardinality(FieldGoalAttempts(w)) - 100 * Cardinality(OffensiveRebounds(w))
    + 100 * Cardinality(Turnovers(w)) + 44 * Cardinality(FreeThrowAttempts(w))

\* C21: the possession estimate of every rated stint is FGA - OREB + TO +
\* 0.44 * FTA over the events of the player's team in the stint's window,
\* FGA counting the 2pt and 3pt events made or missed, FTA the freethrow
\* events, OREB the offensive rebounds and TO the turnovers, and no other
\* event counting; 10, 2, 3 and 5 of them give 13.2 (1320 hundredths).
C21_PossessionEstimate ==
    \A x \in RatedStints :
        LET st == StintAt(x)
            w == Window(st.team_number, st.time_in, st.time_out)
        IN  /\ RatingAt(x).possessions =
                   100 * Cardinality(FieldGoalAttempts(w))
                   - 100 * Cardinality(OffensiveRebounds(w))
                   + 100 * Cardinality(Turnovers(w))
                   + 44 * Cardinality(FreeThrowAttempts(w))
            /\ (/\ Cardinality(FieldGoalAttempts(w)) = 10
                /\ Cardinality(OffensiveRebounds(w)) = 2
                /\ Cardinality(Turnovers(w)) = 3
                /\ Cardinality(FreeThrowAttempts(w)) = 5) =>
                   RatingAt(x).possessions = 1320

\* the box score among other plays and plays of team 2: shirt 4 of team 1
\* was on court for 10 attempts, 2 offensive rebounds, 3 turnovers and 5
\* free throws of 25 events
C21_Witness ==
    /\ pc = "rated"
    /\ Len(game.events) = 25
    /\ Cardinality(Window(1, 0, 600)) = 23
    /\ Cardinality(FieldGoalAttempts(Window(1, 0, 600))) = 10
    /\ Cardinality(FreeThrowAttempts(Window(1, 0, 600))) = 5
    /\ stint_ratings[1][1][1].possessions = 1320

\* C22: an event counts for a stint's window exactly when it is of the
\* team and its absolute time t has time_in <= t <= time_out; so when a
\* stint of a team ends at the second another stint of the team begins
\* (neither stint ending before it began), the events of that second count
\* in the estimates of both stints.
C22_WindowInclusive ==
    \A x \in RatedStints :
        LET st == StintAt(x)
            team == st.team_number
            inside == Window(team, st.time_in, st.time_out)
        IN  /\ RatingAt(x).possessions = Estimate(inside)
            /\ \A y \in RatedStints \ {x} :
                   (/\ StintAt(y).team_number = team
                    /\ st.time_in <= st.time_out
                    /\ StintAt(y).time_in = st.time_out
                    /\ StintAt(y).time_in <= StintAt(y).time_out) =>
                       LET shared == Window(team, st.time_out, st.time_out)
                           next == Window(team, StintAt(y).time_in, StintAt(y).time_out)
                       IN  /\ shared \subseteq inside
                           /\ shared \subseteq next
                           /\ RatingAt(x).possessions
                                  = Estimate(inside \ shared) + Estimate(shared)
                           /\ RatingAt(y).possessions
                                  = Estimate(next \ shared) + Estimate(shared)

\* shirt 4 came off and shirt 7 came on at second 300, where team 1 took a
\* shot: the shot is a possession of both stints
C22_Witness ==
    /\ pc = "rated"
    /\ Len(game.events) = 3
    /\ Len(result[1]) = 2
    /\ result[1][1].stints[1].time_out = 300
    /\ result[1][2].stints[1].time_in = 300
    /\ Estimate(Window(1, 300, 300)) = 100
    /\ stint_ratings[1][1][1].possessions = 100
    /\ stint_ratings[1][2][1].possessions = 100

\* the other team
Opponent(team) == IF team = 1 THEN 2 ELSE 1

\* the fraction r is 100 * points / (poss100 / 100)
IsRating(r, points, poss100) ==
    r.den # 0 /\ r.num * poss100 = 10000 * points * r.den

\* C23: for every stint points_for and points_against are the exit score
\* minus the entry score of the player's team and of the opponent, ORTG of
\* the stint is 100 * points_for over the possessions of the player's team
\* in [time_in, time_out] and DRTG is 100 * points_against over the
\* possessions of the opponent in the same window (read for every estimate
\* that is not 0, where the quotient exists).
C23_StintRatingFormula ==
    \A x \in RatedStints :
        LET st == StintAt(x)
            sr == RatingAt(x)
            for == Estimate(Window(st.team_number, st.time_in, st.time_out))
            against == Estimate(Window(Opponent(st.team_number),
                                       st.time_in, st.time_out))
        IN  /\ sr.points_for = st.score_team_out - st.score_team_in
            /\ sr.points_against = st.score_opp_out - st.score_opp_in
            /\ for # 0 => IsRating(sr.ortg, sr.points_for, for)
            /\ against # 0 => IsRating(sr.drtg, sr.points_against, against)

\* C23 as amended: the two point differences as above; ORTG of the stint is
\* 100 * points_for over the possessions of the player's team when that
\* estimate is positive and 0 otherwise, DRTG is 100 * points_against over
\* the possessions of the opponent in the same window when that estimate
\* is positive and 0 otherwise.
C23_StintRatingWhenPositive ==
    \A x \in RatedStints :
        LET st == StintAt(x)
            sr == RatingAt(x)
            for == Estimate(Window(st.team_number, st.time_in, st.time_out))
            against == Estimate(Window(Opponent(st.team_number),
                                       st.time_in, st.time_out))
        IN  /\ sr.points_for = st.score_team_out - st.score_team_in
            /\ sr.points_against = st.score_opp_out - st.score_opp_in
            /\ IF for > 0 THEN IsRating(sr.ortg, sr.points_for, for)
               ELSE sr.ortg.num = 0 /\ sr.ortg.den # 0
            /\ IF against > 0 THEN IsRating(sr.drtg, sr.points_against, against)
               ELSE sr.drtg.num = 0 /\ sr.drtg.den # 0

\* the box score: shirt 4 of team 1 scored 20 in 13.2 possessions and
\* allowed 18 in 2 possessions of team 2
C23_Witness ==
    /\ pc = "rated"
    /\ stint_ratings[1][1][1].possessions = 1320
    /\ Estimate(Window(2, 0, 600)) = 200
    /\ stint_ratings[1][1][1].points_for = 20
    /\ stint_ratings[1][1][1].points_against = 18
    /\ stint_ratings[1][1][1].ortg = [num |-> 200000, den |-> 1320]
    /\ stint_ratings[1][1][1].drtg = [num |-> 180000, den |-> 200]

\* C24: a stint whose team estimate is 0 has ORTG 0 and a stint whose
\* opponent estimate is 0 has DRTG 0; the ratings step ends without an
\* error with one rating for every stint and every returned player, and
\* no quotient is ever taken over an estimate that is 0 or negative.
C24_ZeroPossessionsRatedZero ==
    /\ pc # "error"
    /\ pc = "rated" =>
           \A t \in {1, 2} :
               /\ Len(ratings[t]) = Len(result[t])
               /\ Len(stint_ratings[t]) = Len(result[t])
               /\ \A k \in 1..Len(result[t]) :
                      /\ Len(stint_ratings[t][k]) = Len(result[t][k].stints)
                      /\ ratings[t][k].ortg.den > 0
                      /\ ratings[t][k].drtg.den > 0
                      /\ ratings[t][k].net_rating.den > 0
    /\ \A x \in RatedStints :
           LET st == StintAt(x)
               sr == RatingAt(x)
               for == Estimate(Window(st.team_number, st.time_in, st.time_out))
               against == Estimate(Window(Opponent(st.team_number),
                                          st.time_in, st.time_out))
           IN  /\ sr.ortg.den > 0
               /\ sr.drtg.den > 0
               /\ for = 0 => sr.ortg.num = 0
               /\ against = 0 => sr.drtg.num = 0

\* shirt 7 came on at 300 and team 2 made it 2-3 with the only play of the
\* game: shirt 7 has 2 points for and no possession, ORTG 0; the starter of
\* team 2 has 2 points against and no possession against, DRTG 0
C24_Witness ==
    /\ pc = "rated"
    /\ Len(game.events) = 2
    /\ Estimate(Window(1, 0, 600)) = 0
    /\ Len(result[1]) = 2
    /\ stint_ratings[1][2][1].possessions = 0
    /\ stint_ratings[1][2][1].points_for = 2
    /\ stint_ratings[1][2][1].ortg.num = 0
    /\ stint_ratings[2][1][1].points_against = 2
    /\ stint_ratings[2][1][1].drtg.num = 0

\* the sums over the stints of the player at place k of team t
PlayerSums(t, k) ==
    LET stints == result[t][k].stints
    IN  [possessions |->
             SumSeq([j \in 1..Len(stints) |->
                 Estimate(Window(t, stints[j].time_in, stints[j].time_out))]),
         points_for |->
             SumSeq([j \in 1..Len(stints) |->
                 stints[j].score_team_out - stints[j].score_team_in]),
         points_against |->
             SumSeq([j \in 1..Len(stints) |->
                 stints[j].score_opp_out - stints[j].score_opp_in])]

\* the fraction n is the fraction a minus the fraction b, a and b over one
\* denominator
IsDifference(n, a, b) ==
    /\ n.den # 0
    /\ a.den = b.den
    /\ n.num * a.den = (a.num - b.num) * n.den

\* the totals of a player are the sums over the player's stints
TotalsAreSums(t, k) ==
    /\ ratings[t][k].total_possessions = PlayerSums(t, k).possessions
    /\ ratings[t][k].total_points_for = PlayerSums(t, k).points_for
    /\ ratings[t][k].total_points_against = PlayerSums(t, k).points_against

\* C25: the totals of every player are the sums over the player's stints of
\* points_for, points_against and the team estimate; ORTG is 100 *
\* total_points_for and DRTG 100 * total_points_against over the one
\* total_possessions, net_rating is ORTG - DRTG, and the three are 0 when
\* total_possessions is 0.
C25_PlayerRatingFormula ==
    pc = "rated" =>
        \A t \in {1, 2} : \A k \in 1..Len(ratings[t]) :
            LET r == ratings[t][k]
            IN  /\ TotalsAreSums(t, k)
                /\ IsDifference(r.net_rating, r.ortg, r.drtg)
                /\ IF r.total_possessions = 0
                   THEN r.ortg.num = 0 /\ r.drtg.num = 0 /\ r.net_rating.num = 0
                   ELSE /\ IsRating(r.ortg, r.total_points_for, r.total_possessions)
                        /\ IsRating(r.drtg, r.total_points_against,
                                    r.total_possessions)

\* C25 as amended: the totals as above; when total_possessions is positive
\* ORTG is 100 * total_points_for and DRTG 100 * total_points_against over
\* it and net_rating is ORTG - DRTG; the three are 0 when total_possessions
\* is 0 or negative.
C25_PlayerRatingWhenPositive ==
    pc = "rated" =>
        \A t \in {1, 2} : \A k \in 1..Len(ratings[t]) :
            LET r == ratings[t][k]
            IN  /\ TotalsAreSums(t, k)
                /\ IsDifference(r.net_rating, r.ortg, r.drtg)
                /\ IF r.total_possessions <= 0
                   THEN r.ortg.num = 0 /\ r.drtg.num = 0 /\ r.net_rating.num = 0
                   ELSE /\ IsRating(r.ortg, r.total_points_for, r.total_possessions)
                        /\ IsRating(r.drtg, r.total_points_against,
                                    r.total_possessions)

\* shirt 4 of team 1 played [0, 300] with a made shot and came back at 900:
\* two stints, one possession and two points in all, ORTG 200
C25_Witness ==
    /\ pc = "rated"
    /\ Len(result[1][1].stints) = 2
    /\ stint_ratings[1][1][1].possessions = 100
    /\ stint_ratings[1][1][2].possessions = 0
    /\ ratings[1][1].total_possessions = 100
    /\ ratings[1][1].total_points_for = 2
    /\ ratings[1][1].ortg = [num |-> 20000, den |-> 100]
    /\ ratings[1][1].drtg = [num |-> 0, den |-> 100]

\* the final score margin seen from team t
Margin(t) ==
    IF t = 1 THEN game.final_score1 - game.final_score2
    ELSE game.final_score2 - game.final_score1

\* C26: in a game without substitution events every starter of both teams
\* is returned with exactly one stint, from 0 to the end of the game, with
\* total_seconds the length of the game and a plus_minus equal to the final
\* score margin seen from the player's team; one period and a final score
\* of 20-18 give [0, 600], 600 s, +2 for team 1 and -2 for team 2.
C26_NoSubstitutionsFullGame ==
    (/\ pc \in {"done", "rated"}
     /\ \A i \in 1..Len(game.events) : game.events[i].action_type # "substitution") =>
        \A t \in {1, 2} :
            /\ {result[t][k].shirt_number : k \in 1..Len(result[t])} = RawStarters(t)
            /\ Len(result[t]) = Cardinality(RawStarters(t))
            /\ \A k \in 1..Len(result[t]) :
                   LET r == result[t][k]
                   IN  /\ Len(r.stints) = 1
                       /\ r.stints[1].time_in = 0
                       /\ r.stints[1].time_out = GameEnd
                       /\ r.total_seconds = GameEnd
                       /\ plus_minus(r.stints[1]) = Margin(t)
                       /\ (/\ game.num_periods = 1
                           /\ game.final_score1 = 20
                           /\ game.final_score2 = 18) =>
                              /\ r.stints[1].time_out = 600
                              /\ r.total_seconds = 600
                              /\ plus_minus(r.stints[1]) = IF t = 1 THEN 2 ELSE -2

\* twenty plays in one period, none a substitution, the last making it 20-18
C26_Witness ==
    /\ pc = "done"
    /\ Len(game.events) = 20
    /\ \A i \in 1..Len(game.events) : game.events[i].action_type # "substitution"
    /\ game.num_periods = 1
    /\ game.final_score1 = 20 /\ game.final_score2 = 18
    /\ result[1][1].stints[1].time_out = 600
    /\ plus_minus(result[1][1].stints[1]) = 2
    /\ plus_minus(result[2][1].stints[1]) = -2

\* the next step is the end of the pass of team tno
TerminalStep == pc = "events" /\ idx > Len(game.events)

\* C27: after every processed event the shirt numbers marked on court are
\* the shirt numbers that hold an open stint-start record; so the terminal
\* step appends a stint, ending at the end of the game, to exactly the
\* roster players still on court, and a substitution-out of a shirt on
\* court finds an open record.
C27_OnCourtIsOpen ==
    [][/\ DOMAIN on_court' = DOMAIN stint_start'
       /\ TerminalStep =>
              \A sn \in DOMAIN rotations :
                  IF sn \in DOMAIN on_court
                  THEN /\ Len(rotations'[sn].stints) = Len(rotations[sn].stints) + 1
                       /\ Last(rotations'[sn].stints).time_in = stint_start[sn].time
                       /\ Last(rotations'[sn].stints).time_out = GameEnd
                  ELSE rotations'[sn].stints = rotations[sn].stints
       /\ (SubStep("out") /\ CurEvent.shirt_number \in DOMAIN on_court) =>
              CurEvent.shirt_number \in DOMAIN stint_start]_vars

\* Adams was taken off and Brown sent on: the terminal step closed a stint
\* for Brown only
C27_Witness ==
    /\ pc = "team" /\ tno = 2
    /\ Len(game.events) = 2
    /\ DOMAIN on_court = {"7"}
    /\ DOMAIN stint_start = {"7"}
    /\ Len(rotations["4"].stints) = 1
    /\ rotations["4"].stints[1].time_out < GameEnd
    /\ Len(rotations["7"].stints) = 1
    /\ rotations["7"].stints[1].time_out = GameEnd

\* the roster of team t in the feed has a player with this shirt and name
OnRawRoster(t, sn, name) ==
    \E j \in 1..Len(raw.tm[t]) :
        raw.tm[t][j].shirtNumber = sn /\ raw.tm[t][j].name = name

\* every record belongs to a roster player of team t, and so do its stints
RosterRecord(r, t) ==
    /\ OnRawRoster(t, r.shirt_number, r.player_name)
    /\ r.team_number = t
    /\ \A k \in 1..Len(r.stints) :
           /\ r.stints[k].shirt_number = r.shirt_number
           /\ r.stints[k].team_number = t

\* the next step processes a substitution of a shirt that is not on the
\* roster of the team of the pass
OffRosterStep ==
    /\ pc = "events"
    /\ idx <= Len(game.events)
    /\ CurEvent.action_type = "substitution"
    /\ CurEvent.team_number = tno
    /\ clock_parses(CurEvent.game_time)
    /\ ~ \E j \in 1..Len(raw.tm[tno]) :
           raw.tm[tno][j].shirtNumber = CurEvent.shirt_number

\* C28: a substitution (with a well-formed clock) of a shirt number that is
\* not on the roster of its team raises no error and adds nothing to the
\* records of the team; every record kept during the pass of team T and
\* every PlayerRotation returned for team T belongs to a roster player of T,
\* and every stint in it carries that player's shirt number and team T.
C28_OffRosterAddsNothing ==
    [][/\ OffRosterStep => (pc' = "events" /\ rotations' = rotations)
       /\ pc' = "events" =>
              \A sn \in DOMAIN rotations' :
                  /\ rotations'[sn].shirt_number = sn
                  /\ RosterRecord(rotations'[sn], tno')
       /\ \A t \in {1, 2} : \A k \in 1..Len(result'[t]) :
              RosterRecord(result'[t][k], t)]_vars

\* shirt 9 was sent on at 0 and taken off at 2700: the game is done and
\* team 1 is returned with Adams only
C28_Witness ==
    /\ pc = "done"
    /\ Len(game.events) = 2
    /\ \A i \in 1..2 : /\ game.events[i].shirt_number = "9"
                       /\ game.events[i].team_number = 1
    /\ game.events[1].sub_type = "in"
    /\ game.events[2].sub_type = "out"
    /\ Len(result[1]) = 1
    /\ result[1][1].shirt_number = "4"

\* the next step processes an event of the team that is not the team of
\* the pass
OtherTeamStep ==
    /\ pc = "events"
    /\ idx <= Len(game.events)
    /\ CurEvent.team_number # tno

\* C29: an event of the other team, a substitution of a shirt number that
\* both teams have included, leaves the on-court set, the open records and
\* the stints of the team of the pass as they are and raises no error; the
\* step changes nothing but the score snapshot and the position in the log.
C29_OtherTeamLeavesCourtAlone ==
    [][OtherTeamStep =>
           /\ pc' = "events"
           /\ idx' = idx + 1
           /\ UNCHANGED <<on_court, stint_start, rotations, result, tno, game>>]_vars

\* in the pass of team 1 the first event, a substitution-out of shirt 4 of
\* team 2 that carries a score of 2-1, was processed: shirt 4 of team 1 is
\* on court as at the start and the snapshot is 2-1
C29_Witness ==
    /\ pc = "events" /\ tno = 1 /\ idx = 2
    /\ game.events[1].action_type = "substitution"
    /\ game.events[1].team_number = 2
    /\ game.events[1].shirt_number = "4"
    /\ game.events[1].sub_type = "out"
    /\ "4" \in DOMAIN on_court
    /\ stint_start["4"] = initial_stint_start
    /\ rotations["4"].stints = <<>>
    /\ last_score1 = 2 /\ last_score2 = 1

=============================================================================
